---- MODULE Spec2Model ----
(***************************************************************************)
(* Smoothed-aggregation AMG (cusp/precond/detail/smoothed_aggregation.inl) *)
(*                                                                         *)
(* Three specifications share this module.                                   *)
(*                                                                         *)
(*   Spec     the life of one smoothed_aggregation object: the constructor *)
(*            loop, then any sequence of operator(), solve(),              *)
(*            operator_complexity() and grid_complexity() calls, with the  *)
(*            V-cycle _solve unfolded into its steps.  Matrices carry      *)
(*            their exact shape and a symbolic content: a term over the    *)
(*            operator and candidate vector of the level being coarsened,  *)
(*            with the collaborators' operations (transpose, multiply,     *)
(*            spectral radius, ...) as function symbols.  Every value      *)
(*            written to a vector gets a fresh stamp; a vector carries its *)
(*            size, its stamp, the operation that wrote it (over the       *)
(*            stamps of its operands) and the set of inputs of the current *)
(*            V-cycle its value was computed from.                         *)
(*                                                                         *)
(*   SpecFit  fit_candidates as a pure function on small concrete inputs,  *)
(*            computed in exact arithmetic on numbers c * sqrt(m).         *)
(*                                                                         *)
(*   SpecSmooth  smooth_prolongator as a pure function on small concrete   *)
(*            inputs, in the same exact arithmetic.                        *)
(***************************************************************************)
EXTENDS Integers, Sequences, FiniteSets, TLC

(* ------------------------------------------------------------------ *)
(* Bounds of the model                                                 *)
(* ------------------------------------------------------------------ *)
MaxLevels == 3
MaxCalls == 2
MaxIter == 2

(* ------------------------------------------------------------------ *)
(* Program constants                                                   *)
(* ------------------------------------------------------------------ *)
\* while (levels.back().A.num_rows > 100)
CoarseThreshold == 100
\* IndexType instantiated at int: the largest value of the index type
MaxIndex == 2147483647

VARIABLES
    pc,          \* where the run is: "ctor", "ready", "vcycle", "solve", "crashed", "fit", "smooth"
    levels,      \* std::vector<level> levels   (levels[1] is level 0)
    LU,          \* the dense factorization of the coarsest operator
    caller,      \* which public call is running: "none", "apply", "solve"
    ncalls,      \* number of operator()/solve calls started so far
    arg_b,       \* the b argument of _solve(b, x, 0)
    arg_x,       \* the x argument of _solve(b, x, 0)
    cur,         \* index (1-based) of the level the V-cycle is at
    step,        \* position inside _solve at level cur
    solve_b,     \* solve(): the caller's b
    solve_x,     \* solve(): the caller's x
    monitor,     \* solve(): the monitor [iteration_count, iteration_limit]
    metric,      \* result of the last operator_complexity()/grid_complexity()
    last,        \* the public call that completed last
    trace,       \* history: operations of the current V-cycle, in order
    ncycles,     \* history: V-cycles started by the current solve()
    nfinished,   \* history: evaluations of monitor.finished by the current solve()
    entry_x,     \* history: the caller's x on entry of the current call
    clock,       \* history: the number of values written to vectors so far
    cycle,       \* history: the number of V-cycles started so far
    fit,         \* fit_candidates on concrete data (specification SpecFit)
    smooth       \* smooth_prolongator on concrete data (specification SpecSmooth)

vars == << pc, levels, LU, caller, ncalls, arg_b, arg_x, cur, step, solve_b, solve_x,
           monitor, metric, last, trace, ncycles, nfinished, entry_x, clock, cycle, fit, smooth >>

(* ------------------------------------------------------------------ *)
(* Symbolic contents                                                   *)
(* ------------------------------------------------------------------ *)
Atom(name) == [op |-> name, args |-> << >>]
App1(f, a) == [op |-> f, args |-> << a >>]
App2(f, a, b) == [op |-> f, args |-> << a, b >>]
App3(f, a, b, c) == [op |-> f, args |-> << a, b, c >>]
App4(f, a, b, c, d) == [op |-> f, args |-> << a, b, c, d >>]

\* the place levels[i].member (i counted from 0 as in the code), and the place LU
Ref(i, member) == App1(member, Atom(ToString(i - 1)))
RefLU == Atom("LU")

(* ------------------------------------------------------------------ *)
(* Containers                                                          *)
(* ------------------------------------------------------------------ *)
\* cusp::coo_matrix holding an operator A: its shape, whether some row with
\* entries has a zero on the diagonal, and its content
Coo(r, c, nnz, zd, v) ==
    [num_rows |-> r, num_cols |-> c, num_entries |-> nnz, zero_diag |-> zd, val |-> v]
\* cusp::coo_matrix P, R, T: shape and content
Mat(r, c, v) == [num_rows |-> r, num_cols |-> c, val |-> v]
\* csr_matrix_view: a view of the arrays of a member of the same level
View(r, c, member) == [num_rows |-> r, num_cols |-> c, of |-> member]
\* cusp::array1d: size, stamp of the value, the operation that wrote it, and the
\* inputs it was computed from
Vec(n, t, v, d) == [size |-> n, stamp |-> t, val |-> v, deps |-> d]
\* an operand named by the stamp of its value
S(v) == Atom(ToString(v.stamp))

EmptyCoo == Coo(0, 0, 0, FALSE, Atom("empty"))
EmptyMat == Mat(0, 0, Atom("empty"))
EmptyView == View(0, 0, "nothing")
EmptyVec == Vec(0, 0, Atom("empty"), {})
EmptyAggregates == [size |-> 0, max |-> 0 - 1, val |-> Atom("empty")]
DefaultSmoother == Atom("default_smoother")
EmptyLU == [n |-> 0, val |-> Atom("empty")]

\* array1d(n), and resize(n) of an empty array1d: n value-initialized entries
Zeros(n) == Vec(n, 0, Atom("zeros"), { << "zeros", 0 >> })
Resize(v, n) == IF v.size = n THEN v ELSE Zeros(n)

\* level(): every member default-constructed
DefaultLevel ==
    [A |-> EmptyCoo, B |-> EmptyVec, aggregates |-> EmptyAggregates,
     R |-> EmptyMat, P |-> EmptyMat,
     residual |-> EmptyVec, x |-> EmptyVec, b |-> EmptyVec,
     smoother |-> DefaultSmoother,
     A_view |-> EmptyView, R_view |-> EmptyView, P_view |-> EmptyView]

(* ------------------------------------------------------------------ *)
(* Collaborators (not part of smoothed_aggregation.inl)                *)
(* ------------------------------------------------------------------ *)
\* cusp::transpose(M, Mt)
Transpose(M) == Mat(M.num_cols, M.num_rows, App1("transpose", M.val))
\* cusp::multiply(X, Y, XY) on matrices
Multiply(X, Y) == Mat(X.num_rows, Y.num_cols, App2("multiply", X.val, Y.val))
\* cusp::multiply(A, x, y): y <- A*x, y keeps its size
MultiplyVec(M, x, y, t) == Vec(y.size, t, App2("multiply", M, S(x)), x.deps)
\* cusp::blas::axpy(x, y, 1): y <- y + x
Axpy(x, y, t) == Vec(y.size, t, App2("add", S(y), S(x)), y.deps \cup x.deps)
\* detail::symmetric_strength_of_connection(A, C, theta)
StrengthOfConnection(M) == Mat(M.num_rows, M.num_cols, App2("strength", M.val, Atom("theta")))
\* cusp::detail::ritz_spectral_radius of D^-1 A
RitzSpectralRadius(M) == App1("ritz_spectral_radius_Dinv", M.val)
\* cusp::relaxation::jacobi<ValueType,MemorySpace>(A, omega)
Jacobi(M, omega) == App2("jacobi", M.val, omega)
\* smoother.presmooth(A, b, x): one sweep from a zero initial guess, x is overwritten
Presmooth(Sm, M, b, x, t) == Vec(x.size, t, App3("presmooth", Sm, M, S(b)), b.deps)
\* smoother.postsmooth(A, b, x): one sweep that starts from x
Postsmooth(Sm, M, b, x, t) ==
    Vec(x.size, t, App4("postsmooth", Sm, M, S(b), S(x)), b.deps \cup x.deps)
\* cusp::detail::lu_solver(coarse_dense)
LuFactor(M) == [n |-> M.num_rows, val |-> App1("lu_solver", App1("array2d", M.val))]
\* LU(temp_b, temp_x)
LuSolve(F, b, x, t) == Vec(x.size, t, App2("lu_solve", F, S(b)), b.deps)

\* detail::standard_aggregation(C, aggregates): one id per row of C, ids 0..max,
\* every id used.  The outcomes the model follows: one aggregate per row, rows
\* merged in pairs, every row in one aggregate.
AggregationOutcomes(C) ==
    { [size |-> C.num_rows, max |-> m, val |-> App1("standard_aggregation", C.val)] :
        m \in { C.num_rows - 1, ((C.num_rows + 1) \div 2) - 1, 0 } }

\* num_entries of the product R*(A*P) with n rows, as cusp::multiply leaves it:
\* the diagonal only, or the diagonal and one off-diagonal
ProductEntries(n) == { n, 2 * n - 1 }

(* ------------------------------------------------------------------ *)
(* Hierarchy construction                                              *)
(* ------------------------------------------------------------------ *)
\* IndexType num_aggregates = *thrust::max_element(aggregates) + 1;
NumAggregates(aggregates) == aggregates.max + 1

\* fit_candidates, shapes of its results: Q.resize(aggregates.size(),
\* num_aggregates, aggregates.size()); R.resize(num_aggregates)
FitCandidatesQ(aggregates, B) ==
    Mat(aggregates.size, NumAggregates(aggregates), App2("fit_candidates_Q", aggregates.val, B.val))
FitCandidatesR(aggregates, B) ==
    Vec(NumAggregates(aggregates), 0, App2("fit_candidates_R", aggregates.val, B.val), {})

\* smooth_prolongator(S, T, P, omega, rho_Dinv_S): temp(S.num_rows, T.num_cols, ..),
\* P.resize(temp.num_rows, temp.num_cols, NNZ)
SmoothProlongator(A, T, omega, rho) ==
    Mat(A.num_rows, T.num_cols, App4("smooth_prolongator", A.val, T.val, omega, rho))

\* setup_view(M, M_view, row_offsets)
SetupView(M, member) == View(M.num_rows, M.num_cols, member)

\* faulty variant of Restriction: P stored where its transpose should be
RestrictionNotTransposed(P) == P
\* the restriction operator stored on a level: cusp::transpose(P, R)
Restriction(P) == Transpose(P)

\* the Galerkin product: multiply(A, P, AP); multiply(R, AP, RAP)
GalerkinProduct(R, A, P) == Multiply(R, Multiply(A, P))

\* faulty variant of MustCoarsen: the loop test off by one
MustCoarsenInclusive(A) == A.num_rows >= CoarseThreshold
\* while (levels.back().A.num_rows > 100)
MustCoarsen(A) == A.num_rows > CoarseThreshold

\* const coo_matrix& A = levels.back().A; const array1d& B = levels.back().B;
\* the operator and the candidate vector of the level being coarsened, by their place
BackA(lv) == [lv[Len(lv)].A EXCEPT !.val = Ref(Len(lv), "A")]
BackB(lv) == [lv[Len(lv)].B EXCEPT !.val = Ref(Len(lv), "B")]

\* extend_hierarchy(): the levels after one coarsening step, for the aggregates
\* the aggregation returned and the number of entries of the product
ExtendHierarchy(lv, aggregates, nnz) ==
    LET n    == Len(lv)
        A    == BackA(lv)
        B    == BackB(lv)
        rho  == RitzSpectralRadius(A)
        T    == FitCandidatesQ(aggregates, B)
        Bc   == FitCandidatesR(aggregates, B)
        P    == SmoothProlongator(A, T, Atom("4/3"), rho)
        R    == Restriction(P)
        RAP  == GalerkinProduct(R, A, P)
        omega == App2("div", Atom("4/3"), rho)
        fine == [lv[n] EXCEPT !.A_view = SetupView(A, "A"),
                              !.smoother = Jacobi(A, omega),
                              !.aggregates = aggregates,
                              !.R = R,
                              !.P = P,
                              !.residual = Resize(@, A.num_rows),
                              !.R_view = SetupView(R, "R"),
                              !.P_view = SetupView(P, "P")]
        coarse == [DefaultLevel EXCEPT
                              !.A = Coo(RAP.num_rows, RAP.num_cols, nnz, FALSE, RAP.val),
                              !.B = Bc,
                              !.x = Resize(@, RAP.num_rows),
                              !.b = Resize(@, RAP.num_rows)]
    IN  Append([lv EXCEPT ![n] = fine], coarse)

\* the operator handed to the dense LU factorization: levels.back().A
CoarseOperator(lv) == lv[Len(lv)].A

(* ------------------------------------------------------------------ *)
(* Inputs                                                              *)
(* ------------------------------------------------------------------ *)
\* The matrices handed to the constructor: << rows, entries >> of the
\* 5-point Laplacian of a 10x10 grid, tridiagonal matrices of 101 and 250 rows and
\* the tridiagonal matrix whose entry count is the largest int.
InputShapes ==
    { << 100, 460 >>, << 101, 301 >>, << 250, 748 >>, << 715827883, MaxIndex >> }

\* ... and the tridiagonal matrix of 101 rows with a zero on its diagonal
InputMatrices ==
    { Coo(s[1], s[1], s[2], FALSE, Atom("A")) : s \in InputShapes }
        \cup { Coo(101, 101, 300, TRUE, Atom("A")) }

\* smoothed_aggregation(A, theta) up to the loop:
\* levels.push_back(level()); levels.back().A = A; levels.back().B.resize(A.num_rows, 1.0f)
FirstLevel(A) ==
    [DefaultLevel EXCEPT !.A = A, !.B = Vec(A.num_rows, 0, Atom("ones"), {})]

NoFit == [ran |-> FALSE]
NoSmooth == [ran |-> FALSE]
NoMetric == [num |-> 0, den |-> 1]
NoMonitor == [iteration_count |-> 0, iteration_limit |-> 0]

\* no public call has been made
NoCall ==
    /\ caller = "none"
    /\ ncalls = 0
    /\ arg_b = EmptyVec
    /\ arg_x = EmptyVec
    /\ cur = 0
    /\ step = "idle"
    /\ solve_b = EmptyVec
    /\ solve_x = EmptyVec
    /\ monitor = NoMonitor
    /\ trace = << >>
    /\ ncycles = 0
    /\ nfinished = 0
    /\ entry_x = EmptyVec
    /\ clock = 0
    /\ cycle = 0

Init ==
    /\ pc = "ctor"
    /\ \E A \in InputMatrices : levels = << FirstLevel(A) >>
    /\ LU = EmptyLU
    /\ metric = NoMetric
    /\ last = "none"
    /\ NoCall
    /\ fit = NoFit
    /\ smooth = NoSmooth

callVars == << caller, ncalls, arg_b, arg_x, cur, step, solve_b, solve_x, monitor,
               trace, ncycles, nfinished, entry_x, clock, cycle >>

\* one iteration of  while (levels.back().A.num_rows > 100) extend_hierarchy();
Coarsen ==
    /\ pc = "ctor"
    /\ Len(levels) < MaxLevels
    /\ MustCoarsen(levels[Len(levels)].A)
    /\ \E aggregates \in AggregationOutcomes(StrengthOfConnection(BackA(levels))) :
         \E nnz \in ProductEntries(NumAggregates(aggregates)) :
            levels' = ExtendHierarchy(levels, aggregates, nnz)
    /\ UNCHANGED << pc, LU, metric, last, fit, smooth >>
    /\ UNCHANGED callVars

\* the loop ends; coarse_dense(levels.back().A); LU = lu_solver(coarse_dense)
Factor ==
    /\ pc = "ctor"
    /\ ~ MustCoarsen(levels[Len(levels)].A)
    /\ LU' = LuFactor(CoarseOperator(levels))
    /\ pc' = "ready"
    /\ UNCHANGED << levels, metric, last, fit, smooth >>
    /\ UNCHANGED callVars

(* ------------------------------------------------------------------ *)
(* The V-cycle  _solve(b, x, i)                                        *)
(* ------------------------------------------------------------------ *)
\* faulty variant of IsCoarsest: the direct solve taken one level early
IsCoarsestEarly(i, lv) == i + 1 >= Len(lv)
\* if (i + 1 == levels.size())   (i counted from 1 here)
IsCoarsest(i, lv) == i = Len(lv)

\* faulty variant of CoarseSolve: the solution added to x instead of assigned
CoarseSolveAccumulating(F, b, x, t) ==
    Vec(x.size, t, App2("add", S(x), App2("lu_solve", F, S(b))), b.deps \cup x.deps)
\* temp_b(b); temp_x(x.size()); LU(temp_b, temp_x); x = temp_x;
CoarseSolve(F, b, x, t) == LuSolve(F, b, x, t)

\* multiply(A, x, residual); axpby(b, residual, residual, 1, -1)
ComputeResidual(A, b, x, residual, t) ==
    Vec(residual.size, t, App2("sub", S(b), App2("multiply", A, S(x))), b.deps \cup x.deps)

\* multiply(R, residual, coarse_b)
RestrictResidual(R, residual, coarse_b, t) == MultiplyVec(R, residual, coarse_b, t)

\* multiply(P, coarse_x, residual)
Prolongate(P, coarse_x, residual, t) == MultiplyVec(P, coarse_x, residual, t)

\* axpy(residual, x, 1)
Correct(residual, x, t) == Axpy(residual, x, t)

\* faulty variant of StoreResidual: the residual kept in the candidate vector
StoreResidualInB(lv, i, r) == [lv EXCEPT ![i].B = r]
\* residual = levels[i].residual: where the V-cycle at level i keeps its residual
StoreResidual(lv, i, r) == [lv EXCEPT ![i].residual = r]

\* coarse_b = levels[i + 1].b: where the V-cycle at level i puts the restricted residual
StoreCoarseB(lv, i, v) == [lv EXCEPT ![i + 1].b = v]

\* the b and x of the call at level i: the caller's at level 0, else
\* coarse_b = levels[i].b and coarse_x = levels[i].x of the level above
FrameB(i) == IF i = 1 THEN arg_b ELSE levels[i].b
FrameX(i) == IF i = 1 THEN arg_x ELSE levels[i].x

\* the levels and the caller's x after the call at level i has written v to its x
LevelsWithX(lv, i, v) == IF i = 1 THEN lv ELSE [lv EXCEPT ![i].x = v]
ArgWithX(i, v) == IF i = 1 THEN v ELSE arg_x

Log(name) == Append(trace, << name, cur - 1 >>)

inVcycle == pc = "vcycle" /\ cur >= 1

\* return from the call at level cur
Return ==
    IF cur = 1 THEN cur' = cur /\ step' = "done"
               ELSE cur' = cur - 1 /\ step' = "returned"

vcycleFrame == << pc, LU, caller, ncalls, arg_b, solve_b, solve_x, monitor, metric, last,
                  ncycles, nfinished, entry_x, cycle, fit, smooth >>

VCoarseSolve ==
    /\ inVcycle /\ step = "enter"
    /\ IsCoarsest(cur, levels)
    /\ LET v == CoarseSolve(RefLU, FrameB(cur), FrameX(cur), clock + 1)
       IN  /\ levels' = LevelsWithX(levels, cur, v)
           /\ arg_x' = ArgWithX(cur, v)
    /\ clock' = clock + 1
    /\ trace' = Log("lu")
    /\ Return
    /\ UNCHANGED vcycleFrame

VPresmooth ==
    /\ inVcycle /\ step = "enter"
    /\ ~ IsCoarsest(cur, levels)
    /\ LET v == Presmooth(Ref(cur, "smoother"), Ref(cur, "A_view"), FrameB(cur),
                          FrameX(cur), clock + 1)
       IN  /\ levels' = LevelsWithX(levels, cur, v)
           /\ arg_x' = ArgWithX(cur, v)
    /\ clock' = clock + 1
    /\ trace' = Log("presmooth")
    /\ step' = "presmoothed"
    /\ UNCHANGED cur
    /\ UNCHANGED vcycleFrame

VResidual ==
    /\ inVcycle /\ step = "presmoothed"
    /\ levels' = StoreResidual(levels, cur,
                    ComputeResidual(Ref(cur, "A_view"), FrameB(cur), FrameX(cur),
                                    levels[cur].residual, clock + 1))
    /\ clock' = clock + 1
    /\ trace' = Log("residual")
    /\ step' = "residual"
    /\ UNCHANGED << cur, arg_x >>
    /\ UNCHANGED vcycleFrame

VRestrict ==
    /\ inVcycle /\ step = "residual"
    /\ levels' = StoreCoarseB(levels, cur,
                    RestrictResidual(Ref(cur, "R_view"), levels[cur].residual,
                                     levels[cur + 1].b, clock + 1))
    /\ clock' = clock + 1
    /\ trace' = Log("restrict")
    /\ step' = "restricted"
    /\ UNCHANGED << cur, arg_x >>
    /\ UNCHANGED vcycleFrame

\* _solve(coarse_b, coarse_x, i + 1)
VRecurse ==
    /\ inVcycle /\ step = "restricted"
    /\ cur' = cur + 1
    /\ step' = "enter"
    /\ trace' = Log("call")
    /\ UNCHANGED << levels, arg_x, clock >>
    /\ UNCHANGED vcycleFrame

VCorrect ==
    /\ inVcycle /\ step = "returned"
    /\ LET r  == Prolongate(Ref(cur, "P_view"), levels[cur + 1].x, levels[cur].residual,
                            clock + 1)
           v  == Correct(r, FrameX(cur), clock + 2)
       IN  /\ levels' = LevelsWithX(StoreResidual(levels, cur, r), cur, v)
           /\ arg_x' = ArgWithX(cur, v)
    /\ clock' = clock + 2
    /\ trace' = Log("correct")
    /\ step' = "corrected"
    /\ UNCHANGED cur
    /\ UNCHANGED vcycleFrame

VPostsmooth ==
    /\ inVcycle /\ step = "corrected"
    /\ LET v == Postsmooth(Ref(cur, "smoother"), Ref(cur, "A_view"), FrameB(cur),
                           FrameX(cur), clock + 1)
       IN  /\ levels' = LevelsWithX(levels, cur, v)
           /\ arg_x' = ArgWithX(cur, v)
    /\ clock' = clock + 1
    /\ trace' = Log("postsmooth")
    /\ Return
    /\ UNCHANGED vcycleFrame

(* ------------------------------------------------------------------ *)
(* Public calls                                                        *)
(* ------------------------------------------------------------------ *)
\* the vectors a caller hands to a call: any b and any x of the size of A
CallerB(t) == Vec(levels[1].A.num_rows, t, Atom("b"), { << "b", 0 >> })
CallerX(t) == Vec(levels[1].A.num_rows, t, Atom("x"), { << "x", 0 >> })

\* on entry of a V-cycle its b and x become the inputs values are traced to
AsInput(v, name, k) == [v EXCEPT !.deps = { << name, k >> }]

idleFrame == << levels, LU, fit, smooth >>

\* operator()(b, x):  _solve(b, x, 0)
Apply ==
    /\ pc = "ready" /\ ncalls < MaxCalls
    /\ ncalls' = ncalls + 1
    /\ caller' = "apply"
    /\ arg_b' = AsInput(CallerB(clock + 1), "b", cycle + 1)
    /\ arg_x' = AsInput(CallerX(clock + 2), "x", cycle + 1)
    /\ entry_x' = CallerX(clock + 2)
    /\ clock' = clock + 2
    /\ cycle' = cycle + 1
    /\ pc' = "vcycle" /\ cur' = 1 /\ step' = "enter"
    /\ trace' = << >>
    \* what an earlier call returned or kept in its own variables is gone
    /\ solve_b' = EmptyVec /\ solve_x' = EmptyVec /\ monitor' = NoMonitor
    /\ ncycles' = 0 /\ nfinished' = 0 /\ metric' = NoMetric
    /\ last' = "none"
    /\ UNCHANGED idleFrame

ApplyReturn ==
    /\ pc = "vcycle" /\ caller = "apply" /\ step = "done"
    /\ pc' = "ready" /\ caller' = "none" /\ step' = "idle" /\ cur' = 0
    /\ last' = "apply"
    /\ UNCHANGED << ncalls, arg_b, arg_x, solve_b, solve_x, monitor, trace, ncycles,
                    nfinished, entry_x, metric, clock, cycle >>
    /\ UNCHANGED idleFrame

\* solve(b, x, monitor): const CsrView & A = levels[0].A_view;
SolveOperator(lv) == lv[1].A_view
SolveOperatorRef == Ref(1, "A_view")
\* multiply(A, x, residual); axpby(b, residual, residual, 1, -1)
SolveResidual(A, b, x, residual, t) ==
    Vec(residual.size, t, App2("sub", S(b), App2("multiply", A, S(x))), b.deps \cup x.deps)
\* axpy(update, x, 1)
SolveAccumulate(update, x, t) == Axpy(update, x, t)

\* axpby on arrays of different sizes (b against a residual of A.num_rows entries)
\* is an error of the call: blas either reports it or runs past the shorter array
SizesAgree(b, residual) == b.size = residual.size

\* solve up to the loop: update(A.num_rows); residual(A.num_rows); initial residual
SolveBegin ==
    /\ pc = "ready" /\ ncalls < MaxCalls
    /\ ncalls' = ncalls + 1
    /\ caller' = "solve"
    /\ solve_b' = CallerB(clock + 1)
    /\ solve_x' = CallerX(clock + 2)
    /\ entry_x' = CallerX(clock + 2)
    /\ \E limit \in 0 .. MaxIter :
          monitor' = [iteration_count |-> 0, iteration_limit |-> limit]
    /\ LET A == SolveOperator(levels)
       IN  /\ arg_x' = Zeros(A.num_rows)
           /\ arg_b' = SolveResidual(SolveOperatorRef, CallerB(clock + 1),
                                     CallerX(clock + 2), Zeros(A.num_rows), clock + 3)
    /\ clock' = clock + 3
    /\ pc' = "solve" /\ cur' = 0 /\ step' = "check"
    /\ trace' = << >> /\ ncycles' = 0 /\ nfinished' = 0 /\ metric' = NoMetric
    /\ last' = "none"
    /\ UNCHANGED cycle
    /\ UNCHANGED idleFrame

\* the error is reported: an exception leaves solve before the loop
SolveThrow ==
    /\ pc = "ready" /\ ncalls < MaxCalls
    /\ ~ SizesAgree(CallerB(clock + 1), Zeros(SolveOperator(levels).num_rows))
    /\ ncalls' = ncalls + 1
    /\ solve_b' = CallerB(clock + 1)
    /\ solve_x' = CallerX(clock + 2)
    /\ entry_x' = CallerX(clock + 2)
    /\ clock' = clock + 2
    /\ last' = "solve_threw"
    /\ ncycles' = 0 /\ nfinished' = 0 /\ metric' = NoMetric
    /\ arg_b' = EmptyVec /\ arg_x' = EmptyVec /\ monitor' = NoMonitor /\ trace' = << >>
    /\ UNCHANGED << pc, caller, cur, step, cycle >>
    /\ UNCHANGED idleFrame

\* monitor.finished(residual) of cusp::default_monitor: the residual is small
\* enough (decided by the data, either way here) or the iteration limit is reached
LimitReached(m) == m.iteration_count >= m.iteration_limit

\* while (!monitor.finished(residual)): finished, solve returns
SolveFinished ==
    /\ pc = "solve" /\ step = "check"
    /\ nfinished' = nfinished + 1
    /\ pc' = "ready" /\ caller' = "none" /\ step' = "idle"
    /\ last' = "solve"
    \* update and residual are locals of solve
    /\ arg_b' = EmptyVec /\ arg_x' = EmptyVec
    /\ UNCHANGED << ncalls, cur, solve_b, solve_x, monitor, trace, ncycles, entry_x, metric,
                    clock, cycle >>
    /\ UNCHANGED idleFrame

\* while (!monitor.finished(residual)): not finished, _solve(residual, update, 0)
SolveIterate ==
    /\ pc = "solve" /\ step = "check"
    /\ ~ LimitReached(monitor)
    /\ nfinished' = nfinished + 1
    /\ ncycles' = ncycles + 1
    /\ cycle' = cycle + 1
    /\ arg_b' = AsInput(arg_b, "b", cycle + 1)
    /\ arg_x' = AsInput(arg_x, "x", cycle + 1)
    /\ pc' = "vcycle" /\ cur' = 1 /\ step' = "enter"
    /\ trace' = << >>
    /\ UNCHANGED << caller, ncalls, solve_b, solve_x, monitor, entry_x, last, metric, clock >>
    /\ UNCHANGED idleFrame

\* axpy(update, x, 1); multiply(A, x, residual); axpby(b, residual, residual, 1, -1);
\* ++monitor
SolveUpdate ==
    /\ pc = "vcycle" /\ caller = "solve" /\ step = "done"
    /\ LET x1 == SolveAccumulate(arg_x, solve_x, clock + 1)
       IN  /\ solve_x' = x1
           /\ arg_b' = SolveResidual(SolveOperatorRef, solve_b, x1, arg_b, clock + 2)
    /\ clock' = clock + 2
    /\ monitor' = [monitor EXCEPT !.iteration_count = @ + 1]
    /\ pc' = "solve" /\ cur' = 0 /\ step' = "check"
    /\ UNCHANGED << caller, ncalls, arg_x, solve_b, trace, ncycles, nfinished, entry_x, last,
                    metric, cycle >>
    /\ UNCHANGED idleFrame

(* ------------------------------------------------------------------ *)
(* Diagnostics                                                         *)
(* ------------------------------------------------------------------ *)
\* a += b in IndexType, b >= 0: past the largest value the sum wraps around
IndexAdd(a, b) ==
    IF a > MaxIndex - b THEN (a - MaxIndex - 1) + (b - MaxIndex - 1) ELSE a + b

RECURSIVE SumEntries(_, _)
\* for (index = 0; index < levels.size(); index++) nnz += levels[index].A.num_entries;
SumEntries(lv, k) ==
    IF k = 0 THEN 0 ELSE IndexAdd(SumEntries(lv, k - 1), lv[k].A.num_entries)

RECURSIVE SumRows(_, _)
\* for (index = 0; index < levels.size(); index++) unknowns += levels[index].A.num_rows;
SumRows(lv, k) ==
    IF k = 0 THEN 0 ELSE IndexAdd(SumRows(lv, k - 1), lv[k].A.num_rows)

RECURSIVE EntriesOverflow(_, _)
\* some nnz += ... passes the largest value of IndexType
EntriesOverflow(lv, k) ==
    k > 0 /\ (EntriesOverflow(lv, k - 1)
                \/ SumEntries(lv, k - 1) > MaxIndex - lv[k].A.num_entries)

RECURSIVE RowsOverflow(_, _)
\* some unknowns += ... passes the largest value of IndexType
RowsOverflow(lv, k) ==
    k > 0 /\ (RowsOverflow(lv, k - 1)
                \/ SumRows(lv, k - 1) > MaxIndex - lv[k].A.num_rows)

\* return (double) nnz / levels[0].A.num_entries;  the quotient is kept as a fraction
operator_complexity(lv) == [num |-> SumEntries(lv, Len(lv)), den |-> lv[1].A.num_entries]

\* return (double) unknowns / levels[0].A.num_rows;
grid_complexity(lv) == [num |-> SumRows(lv, Len(lv)), den |-> lv[1].A.num_rows]

OperatorComplexity ==
    /\ pc = "ready"
    /\ metric' = operator_complexity(levels)
    /\ last' = "operator_complexity"
    /\ UNCHANGED << pc, levels, LU, fit, smooth >>
    /\ UNCHANGED callVars

GridComplexity ==
    /\ pc = "ready"
    /\ metric' = grid_complexity(levels)
    /\ last' = "grid_complexity"
    /\ UNCHANGED << pc, levels, LU, fit, smooth >>
    /\ UNCHANGED callVars

\* signed overflow of the sum is undefined: the builds either wrap around (the
\* two actions above) or, built to trap on overflow, abort the program here
ComplexityTrap ==
    /\ pc = "ready"
    /\ EntriesOverflow(levels, Len(levels)) \/ RowsOverflow(levels, Len(levels))
    /\ pc' = "crashed"
    /\ last' = "trap"
    /\ UNCHANGED << levels, LU, metric, fit, smooth >>
    /\ UNCHANGED callVars

Next ==
    \/ Coarsen
    \/ Factor
    \/ Apply
    \/ ApplyReturn
    \/ SolveBegin
    \/ SolveThrow
    \/ SolveFinished
    \/ SolveIterate
    \/ SolveUpdate
    \/ VCoarseSolve
    \/ VPresmooth
    \/ VResidual
    \/ VRestrict
    \/ VRecurse
    \/ VCorrect
    \/ VPostsmooth
    \/ OperatorComplexity
    \/ GridComplexity
    \/ ComplexityTrap

Spec == Init /\ [][Next]_vars

(* ------------------------------------------------------------------ *)
(* Properties of the object's life (specification Spec)                *)
(* ------------------------------------------------------------------ *)
Constructed == pc # "ctor"
NumLevels == Len(levels)
NonTerminal == 1 .. (NumLevels - 1)

\* C1: once the constructor has returned, the last level's A has at most 100
\* rows and every earlier level has more than 100; an input of at most 100 rows
\* gives exactly one level, the last level has no P, R or smoother, and the
\* LU factorization is that of the last level's A.
C1_LoopPostcondition ==
    Constructed =>
        /\ levels[NumLevels].A.num_rows <= CoarseThreshold
        /\ \A i \in NonTerminal : levels[i].A.num_rows > CoarseThreshold
        /\ levels[1].A.num_rows <= CoarseThreshold => NumLevels = 1
        /\ levels[NumLevels].P = EmptyMat
        /\ levels[NumLevels].R = EmptyMat
        /\ levels[NumLevels].smoother = DefaultSmoother
        /\ LU = LuFactor(levels[NumLevels].A)

\* a constructed hierarchy of a coarsened input, and one of an input left alone
C1_Witness ==
    /\ pc = "ready"
    /\ NumLevels >= 2
    /\ levels[1].A.num_rows = 101
    /\ levels[NumLevels].A.num_rows = 51

\* C2 (as claimed): every level after the first has strictly fewer rows than
\* the level before it, whatever aggregates the aggregation returned.
C2_StrictShrink ==
    \A i \in NonTerminal : levels[i + 1].A.num_rows < levels[i].A.num_rows

\* C3: for every non-terminal level i the stored R is the transpose of the
\* stored P, the next operator is R * (A_i * P) with A_i the operator stored at
\* level i, and P has A_i.num_rows rows and A_{i+1}.num_rows columns.
C3_Galerkin ==
    \A i \in NonTerminal :
        LET A == [levels[i].A EXCEPT !.val = Ref(i, "A")]
            P == levels[i].P
            R == levels[i].R
            RAP == Multiply(R, Multiply(A, P))
        IN  /\ R = Transpose(P)
            /\ levels[i + 1].A.val = RAP.val
            /\ levels[i + 1].A.num_rows = RAP.num_rows
            /\ levels[i + 1].A.num_cols = RAP.num_cols
            /\ P.num_rows = levels[i].A.num_rows
            /\ P.num_cols = levels[i + 1].A.num_rows
            /\ P.num_rows = levels[i].aggregates.size
            /\ P.num_cols = NumAggregates(levels[i].aggregates)

\* two coarsening steps done, the second on a properly smaller operator
C3_Witness ==
    /\ NumLevels = 3
    /\ levels[2].A.num_rows < levels[1].A.num_rows
    /\ levels[3].A.num_rows < levels[2].A.num_rows
    /\ levels[2].P.num_cols = levels[3].A.num_rows

RECURSIVE VcycleOrder(_, _)
\* the operations of _solve at level i of L levels, in the order C5 states
VcycleOrder(i, L) ==
    IF i = L
    THEN << << "lu", i - 1 >> >>
    ELSE << << "presmooth", i - 1 >>, << "residual", i - 1 >>, << "restrict", i - 1 >>,
            << "call", i - 1 >> >>
         \o VcycleOrder(i + 1, L)
         \o << << "correct", i - 1 >>, << "postsmooth", i - 1 >> >>

IsPrefix(s, t) == Len(s) <= Len(t) /\ SubSeq(t, 1, Len(s)) = s

\* C5: the operations of one V-cycle are, in order, presmooth, residual,
\* restriction and the recursive call at each non-terminal level going down,
\* the LU solve alone at the terminal level, then correction and postsmooth at
\* each non-terminal level going up: each exactly once.
C5_VcycleOrder ==
    pc = "vcycle" =>
        /\ IsPrefix(trace, VcycleOrder(1, NumLevels))
        /\ step = "done" => trace = VcycleOrder(1, NumLevels)

\* a V-cycle over three levels has ended
C5_Witness ==
    /\ pc = "vcycle" /\ step = "done"
    /\ NumLevels = 3
    /\ Len(trace) = 13

\* C6 (as claimed): at every evaluation of monitor.finished the residual is
\* b - A_0 * x for the current x, of the size of A_0, through a view of A_0;
\* one V-cycle and one advance of the monitor per iteration; at most
\* iteration_limit V-cycles; no V-cycle leaves x as it was on entry; solve
\* does not fail.
C6_SolveLoop ==
    /\ (pc = "solve" /\ step = "check") =>
          /\ SolveOperator(levels) = SetupView(levels[1].A, "A")
          /\ arg_b.size = levels[1].A.num_rows
          /\ arg_b.val = App2("sub", S(solve_b), App2("multiply", SolveOperatorRef, S(solve_x)))
          /\ ncycles = monitor.iteration_count
          /\ nfinished = ncycles
          /\ ncycles <= monitor.iteration_limit
    /\ last = "solve" =>
          /\ ncycles <= monitor.iteration_limit
          /\ nfinished = ncycles + 1
          /\ ncycles = 0 => solve_x = entry_x
    /\ last # "solve_threw"

\* what of the hierarchy a call must leave alone
Hierarchy(lv) ==
    [i \in 1 .. Len(lv) |->
        [A |-> lv[i].A, B |-> lv[i].B, P |-> lv[i].P, R |-> lv[i].R,
         aggregates |-> lv[i].aggregates, smoother |-> lv[i].smoother,
         A_view |-> lv[i].A_view, R_view |-> lv[i].R_view, P_view |-> lv[i].P_view]]

\* C7: after construction no step changes the number of levels, any level's A,
\* B, P, R, aggregates or smoother, or the LU factorization; levels[j].residual
\* is written only while the V-cycle is at level j, levels[j].b only while it
\* is at level j - 1, levels[j].x only while it is at level j; the caller's b is
\* never written.
C7_Frame ==
    [][Constructed =>
         /\ Hierarchy(levels') = Hierarchy(levels)
         /\ LU' = LU
         /\ \A j \in 1 .. NumLevels :
               /\ levels'[j].residual # levels[j].residual => pc = "vcycle" /\ cur = j
               /\ levels'[j].b # levels[j].b => pc = "vcycle" /\ cur = j - 1
               /\ levels'[j].x # levels[j].x => pc = "vcycle" /\ cur = j
         /\ caller = "apply" => arg_b' = arg_b
         /\ caller = "solve" => solve_b' = solve_b]_vars

\* a second call has run on scratch the first call wrote
C7_Witness ==
    /\ pc = "ready" /\ ncalls = 2
    /\ NumLevels = 3
    /\ levels[1].residual.stamp > 0
    /\ levels[2].b.stamp > 0
    /\ levels[3].x.stamp > levels[2].b.stamp

C9_NoSilentDegenerate ==
    Constructed => \A i \in NonTerminal : ~ levels[i].A.zero_diag

\* num / den >= 1
AtLeastOne(q) ==
    \/ q.den > 0 /\ q.num >= q.den
    \/ q.den < 0 /\ q.num <= q.den

\* C10 (as claimed): both complexities are at least 1 for every constructed
\* hierarchy, the sums being accumulated in IndexType.
C10_Complexities ==
    /\ last = "operator_complexity" =>
          metric = operator_complexity(levels) /\ AtLeastOne(metric)
    /\ last = "grid_complexity" =>
          metric = grid_complexity(levels) /\ AtLeastOne(metric)
    /\ last # "trap"

(* ------------------------------------------------------------------ *)
(* fit_candidates on concrete data (specification SpecFit)             *)
(* ------------------------------------------------------------------ *)
\* bounds: rows of the fine level, largest aggregate id
MaxRows == 3
MaxId == 2
\* the entries a candidate vector B is drawn from
CandidateValues == { 0 - 1, 0, 1, 2 }

\* ValueType, exactly: (p / q) * sqrt(n / d) with q, n, d > 0, or an infinity,
\* or not-a-number.  Rounding is not modelled.
Fin(p, q, n, d) == [kind |-> "fin", p |-> p, q |-> q, n |-> n, d |-> d]
Whole(c) == Fin(c, 1, 1, 1)
Inf(sgn) == [kind |-> "inf", p |-> sgn, q |-> 1, n |-> 1, d |-> 1]
NaN == [kind |-> "nan", p |-> 0, q |-> 1, n |-> 1, d |-> 1]

RECURSIVE Gcd(_, _)
Gcd(a, b) == IF b = 0 THEN a ELSE Gcd(b, a % b)
\* the same number with p / q in lowest terms
Lowest(p, q, n, d) ==
    LET g == Gcd(IF p < 0 THEN 0 - p ELSE p, q)
    IN  Fin(p \div g, q \div g, n, d)

Sign(c) == IF c > 0 THEN 1 ELSE IF c < 0 THEN 0 - 1 ELSE 0
IsZero(x) == x.kind = "fin" /\ x.p = 0

\* x * y
Times(x, y) ==
    IF x.kind = "nan" \/ y.kind = "nan" THEN NaN
    ELSE IF x.kind = "inf" \/ y.kind = "inf"
         THEN IF IsZero(x) \/ IsZero(y) THEN NaN ELSE Inf(Sign(x.p) * Sign(y.p))
         ELSE Lowest(x.p * y.p, x.q * y.q, x.n * y.n, x.d * y.d)

\* x + y of two rationals, or with an infinity
Plus(x, y) ==
    IF x.kind = "nan" \/ y.kind = "nan" THEN NaN
    ELSE IF x.kind = "inf" THEN (IF y.kind = "inf" /\ y.p # x.p THEN NaN ELSE x)
    ELSE IF y.kind = "inf" THEN y
    ELSE Lowest(x.p * y.q + y.p * x.q, x.q * y.q, 1, 1)

\* x == y as ValueType compares: not-a-number equals nothing
NumEq(x, y) ==
    /\ x.kind = y.kind
    /\ x.kind # "nan"
    /\ Sign(x.p) = Sign(y.p)
    /\ x.kind = "fin" =>
          x.p * x.p * x.n * y.q * y.q * y.d = y.p * y.p * y.n * x.q * x.q * x.d

\* square<T>: x * x
square(x) == Times(x, x)

\* faulty variant of sqrt_functor: the root not taken
sqrt_omitted(x) == x
\* sqrt_functor<T>: sqrt(x), of a sum of squares
sqrt_functor(x) ==
    IF x.kind # "fin" THEN x
    ELSE IF x.p < 0 THEN NaN
    ELSE IF x.p = 0 THEN Whole(0)
    ELSE Fin(1, 1, x.p, x.q)

\* thrust::divides<ValueType>: x / y
divides(x, y) ==
    IF x.kind = "nan" \/ y.kind = "nan" THEN NaN
    ELSE IF IsZero(y) THEN (IF IsZero(x) THEN NaN ELSE Inf(Sign(x.p)))
    ELSE IF y.kind = "inf" THEN (IF x.kind = "inf" THEN NaN ELSE Whole(0))
    ELSE IF x.kind = "inf" THEN Inf(Sign(x.p) * Sign(y.p))
    ELSE Lowest(Sign(y.p) * x.p * y.q, Sign(y.p) * x.q * y.p, x.n * y.d, x.d * y.n)

\* *thrust::max_element(aggregates.begin(), aggregates.end())
max_element(a) == CHOOSE m \in { a[i] : i \in 1 .. Len(a) } : \A i \in 1 .. Len(a) : a[i] <= m

\* thrust::sequence(first, last): 0, 1, 2, ...
sequence(n) == [i \in 1 .. n |-> i - 1]

CooMatrix(r, c, rows, cols, vals) ==
    [num_rows |-> r, num_cols |-> c, row_indices |-> rows, column_indices |-> cols,
     values |-> vals]
EmptyCooMatrix == CooMatrix(0, 0, << >>, << >>, << >>)

\* the positions of the entries of M in column c, in storage order
EntriesOfColumn(M, c) ==
    SelectSeq([i \in 1 .. Len(M.values) |-> i], LAMBDA i : M.column_indices[i] = c)

RECURSIVE ByColumn(_, _)
\* the positions of the entries of M ordered by column, from column c on
ByColumn(M, c) ==
    IF c >= M.num_cols THEN << >> ELSE EntriesOfColumn(M, c) \o ByColumn(M, c + 1)

\* cusp::transpose(Q, Qt) of a coo_matrix: rows and columns swapped, entries
\* sorted by their new row
transpose(M) ==
    LET perm == ByColumn(M, 0)
    IN  CooMatrix(M.num_cols, M.num_rows,
                  [k \in 1 .. Len(perm) |-> M.column_indices[perm[k]]],
                  [k \in 1 .. Len(perm) |-> M.row_indices[perm[k]]],
                  [k \in 1 .. Len(perm) |-> M.values[perm[k]]])

RECURSIVE reduce_by_key(_, _)
\* thrust::reduce_by_key(keys, values): one sum per run of equal consecutive
\* keys, written one after the other from the start of the output
reduce_by_key(keys, vals) ==
    IF keys = << >> THEN << >>
    ELSE LET rest == reduce_by_key(Tail(keys), Tail(vals))
         IN  IF Len(keys) > 1 /\ keys[2] = keys[1]
             THEN << Plus(vals[1], rest[1]) >> \o Tail(rest)
             ELSE << vals[1] >> \o rest

\* the sums written over the start of R, which R.resize(num_aggregates) left
\* with num_aggregates zeros
WrittenOver(sums, num_aggregates) ==
    [a \in 1 .. num_aggregates |-> IF a <= Len(sums) THEN sums[a] ELSE Whole(0)]

\* fit_candidates(aggregates, B, Q, R): the Q and R it leaves
fit_candidates(aggregates, B) ==
    LET num_aggregates == max_element(aggregates) + 1
        n    == Len(aggregates)
        Q0   == CooMatrix(n, num_aggregates, sequence(n), aggregates, B)
        Qt   == transpose(Q0)
        sums == reduce_by_key(Qt.row_indices, [k \in 1 .. Len(Qt.values) |-> square(Qt.values[k])])
        R0   == WrittenOver(sums, num_aggregates)
        R    == [a \in 1 .. num_aggregates |-> sqrt_functor(R0[a])]
        Q    == [Q0 EXCEPT !.values =
                    [i \in 1 .. n |-> divides(Q0.values[i], R[Q0.column_indices[i] + 1])]]
    IN  [Q |-> Q, R |-> R]

\* the inputs: every assignment of ids 0 .. MaxId to 1 .. MaxRows rows, every
\* candidate vector of that many entries
InitFit ==
    /\ pc = "fit"
    /\ levels = << >>
    /\ LU = EmptyLU
    /\ metric = NoMetric
    /\ last = "none"
    /\ NoCall
    /\ smooth = NoSmooth
    /\ \E n \in 1 .. MaxRows :
          \E a \in [1 .. n -> 0 .. MaxId], b \in [1 .. n -> CandidateValues] :
             fit = [ran |-> FALSE, aggregates |-> a, B |-> [i \in 1 .. n |-> Whole(b[i])],
                    Q |-> EmptyCooMatrix, R |-> << >>]

FitCandidates ==
    /\ pc = "fit"
    /\ ~ fit.ran
    /\ LET out == fit_candidates(fit.aggregates, fit.B)
       IN  fit' = [fit EXCEPT !.ran = TRUE, !.Q = out.Q, !.R = out.R]
    /\ UNCHANGED << pc, levels, LU, metric, last, smooth >>
    /\ UNCHANGED callVars

NextFit == FitCandidates

SpecFit == InitFit /\ [][NextFit]_vars

(* ------------------------------------------------------------------ *)
(* Properties of fit_candidates (specification SpecFit)                *)
(* ------------------------------------------------------------------ *)
FineRows == 1 .. Len(fit.aggregates)
AggregateIds == 0 .. max_element(fit.aggregates)

RECURSIVE SumOfSquares(_, _)
\* the sum of B[r]^2 over the rows r <= k of aggregate a
SumOfSquares(a, k) ==
    IF k = 0 THEN 0
    ELSE SumOfSquares(a, k - 1)
         + (IF fit.aggregates[k] = a THEN fit.B[k].p * fit.B[k].p ELSE 0)

\* T (in Q) and B_coarse (in R) are as C4 describes them
FitAsClaimed ==
    /\ fit.Q.num_rows = Len(fit.aggregates)
    /\ fit.Q.num_cols = max_element(fit.aggregates) + 1
    /\ Len(fit.Q.values) = Len(fit.aggregates)
    /\ \A r \in FineRows :
          /\ fit.Q.row_indices[r] = r - 1
          /\ fit.Q.column_indices[r] = fit.aggregates[r]
    /\ Len(fit.R) = max_element(fit.aggregates) + 1
    /\ \A a \in AggregateIds :
          /\ fit.R[a + 1].kind = "fin" /\ fit.R[a + 1].p >= 0
          /\ NumEq(Times(fit.R[a + 1], fit.R[a + 1]), Whole(SumOfSquares(a, Len(fit.aggregates))))
    /\ \A r \in FineRows :
          NumEq(Times(fit.Q.values[r], fit.R[fit.aggregates[r] + 1]), fit.B[r])

\* every id of 0 .. max(aggregates) is the aggregate of some row
AllIdsUsed == \A a \in AggregateIds : \E r \in FineRows : fit.aggregates[r] = a
\* B is not zero on the whole of any aggregate
NonzeroNorms == \A a \in AggregateIds : SumOfSquares(a, Len(fit.aggregates)) > 0

\* C4 (as claimed): for every assignment of nonnegative ids, T has one entry
\* per row r at (r, aggregates[r]), B_coarse has max(aggregates)+1 entries,
\* B_coarse[a] is the root of the sum of B[r]^2 over aggregate a, and
\* T[r, aggregates[r]] * B_coarse[aggregates[r]] = B[r].
C4_FitCandidates == fit.ran => FitAsClaimed

\* C4 (amended): the same, for assignments that use every id of
\* 0 .. max(aggregates) and candidate vectors not zero on a whole aggregate.
C4_FitCandidatesAmended == (fit.ran /\ AllIdsUsed /\ NonzeroNorms) => FitAsClaimed

\* fit_candidates has run on three rows in two aggregates, one of two rows
C4_Witness ==
    /\ fit.ran /\ AllIdsUsed /\ NonzeroNorms
    /\ Len(fit.aggregates) = 3
    /\ max_element(fit.aggregates) = 1
    /\ fit.aggregates[1] = 1
    /\ fit.R[1].n = 5

(* ------------------------------------------------------------------ *)
(* smooth_prolongator on concrete data (specification SpecSmooth)      *)
(* ------------------------------------------------------------------ *)
\* bound: rows of S
MaxSmoothRows == 2
\* the diagonal entries of S (0: no entry stored) and its entries next to the
\* diagonal (0: no entry stored)
DiagonalValues == { 0, 1, 2 }
OffDiagonalValues == { 0, 0 - 1 }
\* the aggregate ids and the values of the entries of T
TentativeIds == { 0, 1 }
TentativeValues == { 1, 2 }
\* << omega, rho_Dinv_S >> as passed, and what estimate_rho_Dinv_A(S) returns
\* when it is called
OmegaRho == { << 4, 3 >>, << 1, 2 >>, << 4, 0 >> }
EstimatedRho == { 2 }

\* -x
Neg(x) == Times(Whole(0 - 1), x)

\* a coo_matrix with its num_entries
CooEntries(r, c, rows, cols, vals) ==
    [num_rows |-> r, num_cols |-> c, num_entries |-> Len(vals),
     row_indices |-> rows, column_indices |-> cols, values |-> vals]
EmptyCooEntries == CooEntries(0, 0, << >>, << >>, << >>)

\* thrust::gather(map, input): input[map[k]] for every k
gather(map, input) == [k \in 1 .. Len(map) |-> input[map[k] + 1]]

\* cusp::detail::extract_diagonal(S, D): D[i] = S(i,i), zero where S stores none
extract_diagonal(M) ==
    [i \in 1 .. M.num_rows |->
        IF \E k \in 1 .. M.num_entries :
              M.row_indices[k] = i - 1 /\ M.column_indices[k] = i - 1
        THEN M.values[CHOOSE k \in 1 .. M.num_entries :
                         M.row_indices[k] = i - 1 /\ M.column_indices[k] = i - 1]
        ELSE Whole(0)]

\* the positions of the entries with row r and column c, in storage order
PositionsAt(rows, cols, r, c) ==
    SelectSeq([k \in 1 .. Len(rows) |-> k], LAMBDA k : rows[k] = r /\ cols[k] = c)

RECURSIVE SortedPositions(_, _, _, _, _)
\* the positions ordered by (row, column), from the coordinate numbered k on
SortedPositions(rows, cols, nr, nc, k) ==
    IF k >= nr * nc THEN << >>
    ELSE PositionsAt(rows, cols, k \div nc, k % nc)
         \o SortedPositions(rows, cols, nr, nc, k + 1)

\* cusp::detail::sort_by_row_and_column(rows, cols, vals)
sort_by_row_and_column(M) ==
    LET perm == SortedPositions(M.row_indices, M.column_indices, M.num_rows, M.num_cols, 0)
    IN  CooEntries(M.num_rows, M.num_cols,
                   [k \in 1 .. Len(perm) |-> M.row_indices[perm[k]]],
                   [k \in 1 .. Len(perm) |-> M.column_indices[perm[k]]],
                   [k \in 1 .. Len(perm) |-> M.values[perm[k]]])

RECURSIVE reduce_by_key_keys(_)
\* thrust::reduce_by_key, its keys output: the key of each run
reduce_by_key_keys(keys) ==
    IF keys = << >> THEN << >>
    ELSE IF Len(keys) > 1 /\ keys[2] = keys[1]
         THEN reduce_by_key_keys(Tail(keys))
         ELSE << keys[1] >> \o reduce_by_key_keys(Tail(keys))

\* const ValueType lambda = omega / (rho_Dinv_S == 0.0 ? estimate_rho_Dinv_A(S) : rho_Dinv_S)
lambda(omega, rho_Dinv_S, estimate) ==
    divides(Whole(omega), IF rho_Dinv_S = 0 THEN Whole(estimate) ELSE Whole(rho_Dinv_S))

\* faulty variant of TempColumns: the columns of S taken as they are
TempColumnsNotGathered(M, T) == M.column_indices
\* thrust::gather(S.column_indices, T.column_indices, temp.column_indices)
TempColumns(M, T) == gather(M.column_indices, T.column_indices)

\* temp.values over the entries of S: S(i,j) * T(j,k), times -lambda, over D[i]
TempValues(M, T, lam) ==
    LET D == extract_diagonal(M)
        picked == gather(M.column_indices, T.values)
    IN  [k \in 1 .. M.num_entries |->
            divides(Times(Times(M.values[k], picked[k]), Neg(lam)), D[M.row_indices[k] + 1])]

\* zip of (row, column)
Zip(rows, cols) == [k \in 1 .. Len(rows) |-> << rows[k], cols[k] >>]

\* IndexType NNZ = inner_product(first, last - 1, first + 1, 0, plus, not_equal_to) + 1
CountUnique(keys) ==
    Cardinality({ k \in 1 .. Len(keys) - 1 : keys[k] # keys[k + 1] }) + 1

\* smooth_prolongator(S, T, P, omega, rho_Dinv_S): the P it leaves
smooth_prolongator(M, T, omega, rho_Dinv_S, estimate) ==
    LET lam    == lambda(omega, rho_Dinv_S, estimate)
        temp   == CooEntries(M.num_rows, T.num_cols,
                             M.row_indices \o T.row_indices,
                             TempColumns(M, T) \o T.column_indices,
                             TempValues(M, T, lam) \o T.values)
        sorted == sort_by_row_and_column(temp)
        keys   == Zip(sorted.row_indices, sorted.column_indices)
        NNZ    == CountUnique(keys)
        outk   == reduce_by_key_keys(keys)
        outv   == reduce_by_key(keys, sorted.values)
    IN  [num_rows |-> temp.num_rows, num_cols |-> temp.num_cols, num_entries |-> NNZ,
         row_indices |-> [k \in 1 .. Len(outk) |-> outk[k][1]],
         column_indices |-> [k \in 1 .. Len(outk) |-> outk[k][2]],
         values |-> outv]

\* the matrix S of n rows with the given diagonal and entries next to it, as a
\* coordinate list in row-major order holding the nonzero ones
BandMatrix(n, diag, off) ==
    LET at(k) == << (k - 1) \div n, (k - 1) % n >>
        val(k) == IF at(k)[1] = at(k)[2] THEN diag[at(k)[1] + 1]
                  ELSE IF at(k) \in DOMAIN off THEN off[at(k)] ELSE 0
        kept == SelectSeq([k \in 1 .. n * n |-> k], LAMBDA k : val(k) # 0)
    IN  CooEntries(n, n,
                   [k \in 1 .. Len(kept) |-> at(kept[k])[1]],
                   [k \in 1 .. Len(kept) |-> at(kept[k])[2]],
                   [k \in 1 .. Len(kept) |-> Whole(val(kept[k]))])

NextToDiagonal(n) ==
    { q \in (0 .. n - 1) \X (0 .. n - 1) : q[1] - q[2] = 1 \/ q[2] - q[1] = 1 }

\* T with one entry per row, stored in row order
TentativeMatrix(n, ids, tv) ==
    CooEntries(n, max_element(ids) + 1, sequence(n), ids, [i \in 1 .. n |-> Whole(tv[i])])

InitSmooth ==
    /\ pc = "smooth"
    /\ levels = << >>
    /\ LU = EmptyLU
    /\ metric = NoMetric
    /\ last = "none"
    /\ NoCall
    /\ fit = NoFit
    /\ \E n \in 1 .. MaxSmoothRows :
          \E diag \in [1 .. n -> DiagonalValues],
             off \in [NextToDiagonal(n) -> OffDiagonalValues],
             ids \in [1 .. n -> TentativeIds],
             tv \in [1 .. n -> TentativeValues],
             wr \in OmegaRho,
             est \in EstimatedRho :
             smooth = [ran |-> FALSE, S |-> BandMatrix(n, diag, off),
                       T |-> TentativeMatrix(n, ids, tv),
                       omega |-> wr[1], rho |-> wr[2], estimate |-> est,
                       P |-> EmptyCooEntries]

SmoothProlongatorCall ==
    /\ pc = "smooth"
    /\ ~ smooth.ran
    \* assert(T.num_entries == T.num_rows)
    /\ smooth.T.num_entries = smooth.T.num_rows
    /\ smooth' = [smooth EXCEPT !.ran = TRUE,
                     !.P = smooth_prolongator(smooth.S, smooth.T, smooth.omega,
                                              smooth.rho, smooth.estimate)]
    /\ UNCHANGED << pc, levels, LU, metric, last, fit >>
    /\ UNCHANGED callVars

NextSmooth == SmoothProlongatorCall

SpecSmooth == InitSmooth /\ [][NextSmooth]_vars

(* ------------------------------------------------------------------ *)
(* Properties of smooth_prolongator (specification SpecSmooth)         *)
(* ------------------------------------------------------------------ *)
\* agg(j): the column of the entry of T in row j
AggOf(j) == smooth.T.column_indices[j + 1]
\* T[j, agg(j)]
TentativeAt(j) == smooth.T.values[j + 1]
\* D[i]: the diagonal entry of S in row i, zero if S stores none
DiagonalAt(i) ==
    LET here == { k \in 1 .. smooth.S.num_entries :
                     smooth.S.row_indices[k] = i /\ smooth.S.column_indices[k] = i }
    IN  IF here = {} THEN Whole(0) ELSE smooth.S.values[CHOOSE k \in here : TRUE]

\* the coordinate the k-th entry of S contributes to, and what it contributes
\* for the quotient q = omega / rho
CoordinateOf(k) == << smooth.S.row_indices[k], AggOf(smooth.S.column_indices[k]) >>
ContributionOf(k, q) ==
    divides(Times(Times(Neg(q), smooth.S.values[k]), TentativeAt(smooth.S.column_indices[k])),
            DiagonalAt(smooth.S.row_indices[k]))

\* the coordinates of the S.num_entries + T.num_entries candidates
CandidateCoordinates ==
    { CoordinateOf(k) : k \in 1 .. smooth.S.num_entries }
        \cup { << r, AggOf(r) >> : r \in 0 .. smooth.T.num_rows - 1 }

RECURSIVE SumAt(_, _, _)
\* the sum of the contributions of the first k entries of S at coordinate c
SumAt(c, q, k) ==
    IF k = 0 THEN Whole(0)
    ELSE IF CoordinateOf(k) = c THEN Plus(SumAt(c, q, k - 1), ContributionOf(k, q))
    ELSE SumAt(c, q, k - 1)

\* the entry of (I - q * D^-1 * S) * T at coordinate c, as the sum of its candidates
ExpectedAt(c, q) ==
    IF AggOf(c[1]) = c[2]
    THEN Plus(SumAt(c, q, smooth.S.num_entries), TentativeAt(c[1]))
    ELSE SumAt(c, q, smooth.S.num_entries)

\* the same value: equal numbers, or the same infinity, or both not a number
SameValue(x, y) == NumEq(x, y) \/ (x.kind = "nan" /\ y.kind = "nan")

\* (r1, c1) before (r2, c2) in the order by (row, column)
Before(a, b) == a[1] < b[1] \/ (a[1] = b[1] /\ a[2] < b[2])

\* P is as C11 describes it, for the quotient q = omega / rho
SmoothAsClaimed(q) ==
    LET P == smooth.P
        at(k) == << P.row_indices[k], P.column_indices[k] >>
    IN  /\ P.num_rows = smooth.S.num_rows
        /\ P.num_cols = smooth.T.num_cols
        /\ Len(P.row_indices) = P.num_entries
        /\ Len(P.column_indices) = P.num_entries
        /\ Len(P.values) = P.num_entries
        /\ P.num_entries = Cardinality(CandidateCoordinates)
        /\ \A k \in 1 .. P.num_entries - 1 : Before(at(k), at(k + 1))
        /\ \A k \in 1 .. P.num_entries :
              /\ at(k) \in CandidateCoordinates
              /\ SameValue(P.values[k], ExpectedAt(at(k), q))

\* C11 (as claimed): P is the coordinate list of (I - (omega/rho) D^-1 A) T,
\* sorted by (row, col), every coordinate once, each entry the sum of the
\* candidates at its coordinate, with omega/rho taken from the arguments.
C11_SmoothProlongator ==
    smooth.ran => SmoothAsClaimed(divides(Whole(smooth.omega), Whole(smooth.rho)))

\* C11 (amended): the same with rho the argument when it is not zero and the
\* estimated spectral radius of D^-1 A when the argument is zero.
C11_SmoothProlongatorAmended ==
    smooth.ran =>
        SmoothAsClaimed(divides(Whole(smooth.omega),
                                Whole(IF smooth.rho = 0 THEN smooth.estimate ELSE smooth.rho)))

\* smooth_prolongator has run on a full 2 x 2 matrix whose two rows are in one
\* aggregate: three candidates meet at each coordinate
C11_Witness ==
    /\ smooth.ran
    /\ smooth.rho # 0
    /\ smooth.S.num_entries = 4
    /\ smooth.T.column_indices = << 0, 0 >>
    /\ smooth.P.num_entries = 2
    /\ smooth.P.values[1].kind = "fin"

====
